---- MODULE Spec2Model ----
(***************************************************************************)
(* Model of the document-to-text extraction pipeline of the quiz creator   *)
(* (extractTextFromFile and runOCR in the App module).  Texts are          *)
(* sequences of one-character strings, so that trim, join and length are   *)
(* computed as the code computes them.                                     *)
(***************************************************************************)
EXTENDS Integers, Sequences, FiniteSets, TLC

\* Largest page count of a PDF input.
MaxPages == 3

\* Characters per page below which a PDF counts as scanned.
CharsPerPage == 50

NL == "\n"
SP == " "
Whitespace == {SP, NL}

\* Marker of a Promise.all slot whose page task has not fulfilled yet.
Pending == <<"<pending>">>

\* n copies of the character c.
Rep(c, n) == [k \in 1..n |-> c]

RECURSIVE TrimStart(_)
TrimStart(t) ==
    IF t = <<>> THEN t
    ELSE IF Head(t) \in Whitespace THEN TrimStart(Tail(t)) ELSE t

RECURSIVE TrimEnd(_)
TrimEnd(t) ==
    IF t = <<>> THEN t
    ELSE IF t[Len(t)] \in Whitespace THEN TrimEnd(SubSeq(t, 1, Len(t) - 1)) ELSE t

\* String.prototype.trim
Trim(t) == TrimEnd(TrimStart(t))

\* Array.prototype.join: the elements separated by sep, "" for no elements.
RECURSIVE Join(_, _)
Join(items, sep) ==
    IF items = <<>> THEN <<>>
    ELSE IF Len(items) = 1 THEN items[1]
    ELSE items[1] \o <<sep>> \o Join(Tail(items), sep)

\* String.prototype.startsWith
StartsWith(t, prefix) ==
    /\ Len(t) >= Len(prefix)
    /\ SubSeq(t, 1, Len(prefix)) = prefix

\* Math.round((num / den) * 100), for num, den >= 0 and den > 0.
RoundPercent(num, den) == (200 * num + den) \div (2 * den)

----------------------------------------------------------------------------
\* Media type strings.
ImagePrefix == <<"i","m","a","g","e","/">>
TextPrefix == <<"t","e","x","t","/">>
PdfType == <<"a","p","p","l","i","c","a","t","i","o","n","/","p","d","f">>
ZipType == <<"a","p","p","l","i","c","a","t","i","o","n","/","z","i","p">>

ImageTypes == {ImagePrefix \o <<"p","n","g">>, ImagePrefix \o <<"j","p","e","g">>}
TextTypes == {TextPrefix \o <<"p","l","a","i","n">>, TextPrefix \o <<"m","a","r","k","d","o","w","n">>}
\* Neither image/*, application/pdf nor text/*: a zip, an unknown (empty) type,
\* and a type that lacks the slash of the image prefix.
OtherTypes == {ZipType, <<>>, <<"i","m","a","g","e">>}

\* Variant of IsText: every type the earlier branches left is read as text.
IsTextAnything(type) == TRUE

IsImage(type) == StartsWith(type, ImagePrefix)
IsPdf(type) == type = PdfType
IsText(type) == StartsWith(type, TextPrefix)

\* Decoded contents of text files, and texts an image can show.
PlainTexts == {<<>>, <<SP, NL>>, <<"h","i",NL,"y","o","u",SP>>}

\* The text runs of one PDF page: a page without embedded text, a page of
\* two runs making CharsPerPage characters, and a page of CharsPerPage
\* characters that starts with a space (an empty first run).
PageChoices ==
    { <<>>,
      << Rep("s", CharsPerPage \div 2 - 1), Rep("s", CharsPerPage - CharsPerPage \div 2) >>,
      << <<>>, Rep("s", CharsPerPage - 1) >> }

PdfDocs == UNION { [1..n -> PageChoices] : n \in 1..MaxPages }

Files ==
    [type : ImageTypes, text : PlainTexts, pages : {<<>>}]
    \cup [type : TextTypes, text : PlainTexts, pages : {<<>>}]
    \cup [type : OtherTypes, text : {<<>>}, pages : {<<>>}]
    \cup [type : {PdfType}, text : {<<>>}, pages : PdfDocs]

\* What the recognition engine reads on the raster of page p.
PageText(p) == Rep("o", p)

Pages == 1..MaxPages

----------------------------------------------------------------------------
\* Error messages.
ErrImageOcr == "Failed to extract text from image using OCR."
ErrPdfRead == "Failed to read PDF file."
ErrPdfParse == "Could not parse the PDF file. It might be corrupted or protected."
ErrUnsupported == "Unsupported file type. Please upload a PDF, image, .txt, or .md file."
ErrReaderEvent == "<FileReader error event>"

\* Progress messages: the text and, where the code formats one, the percentage.
Msg(text) == [text |-> text, pct |-> -1]
MsgPct(text, pct) == [text |-> text, pct |-> pct]
NoMsg == Msg("")

VARIABLES
    file,           \* the input File: media type and content
    pc,             \* position of the extraction's main flow
    settled,        \* state of the promise extractTextFromFile returned
    result,         \* the value it resolved with
    error,          \* the error it rejected with
    progress,       \* last message handed to the updater
    readStarted,    \* a FileReader read has been started
    numPages,       \* pdf.numPages, 0 until the PDF is open
    i,              \* page index of the structural loop
    textContent,    \* running text of the structural pass
    path,           \* outcome of the scanned-document heuristic
    pagesProcessed, \* shared counter of the OCR fallback
    pageLoads,      \* number of pdf.getPage calls issued
    tpc,            \* position of each page task of the OCR fallback
    ocrPageTexts,   \* values Promise.all has collected, by page index
    worker,         \* OCR workers: 0 is runOCR's, p is page task p's
    outOfOrder,     \* a page task fulfilled while an earlier page was still running
    selectedFile,   \* App state file: the selected File or none
    quizData,       \* App state quizData: the generated quiz or none
    isLoading,      \* App state isLoading
    appError,       \* App state error
    timerRef,       \* timerRef.current: an interval id, 0 for null
    activeTimers,   \* ids of the intervals set and not cleared
    quizConfig,     \* App state quizConfig
    hpc,            \* position of handleGenerateQuiz
    aiRequest,      \* arguments of the attempt's call of generateQuizFromText
    staleTasks,     \* page tasks of an earlier extraction are still running
    userAnswers,    \* QuizDisplay state userAnswers, by question
    isSubmitted,    \* QuizDisplay state isSubmitted
    lateChange      \* handleAnswerChange has been called after the submission

\* Largest number of questions of a displayed quiz.
MaxQuestions == 2

\* userAnswers[index] of a question without a recorded answer.
NoAnswer == "<undefined>"

displayVars == << userAnswers, isSubmitted, lateChange >>

\* useState({}) and useState(false) of a mounted QuizDisplay.
DisplayIdle ==
    /\ userAnswers = [q \in 1..MaxQuestions |-> NoAnswer]
    /\ isSubmitted = FALSE
    /\ lateChange = FALSE

appVars == << selectedFile, quizData, isLoading, appError, timerRef, activeTimers,
              quizConfig, hpc, aiRequest, staleTasks, displayVars >>

vars == << file, pc, settled, result, error, progress, readStarted, numPages, i,
           textContent, path, pagesProcessed, pageLoads, tpc, ocrPageTexts,
           worker, outOfOrder, appVars >>

pdfVars == << numPages, i, textContent, path, pagesProcessed, pageLoads, tpc,
              ocrPageTexts, outOfOrder >>

\* App state: no file, no quiz, no error, no request.
NoFile == [type |-> <<"<", "n", "u", "l", "l", ">">>, text |-> <<>>, pages |-> <<>>]
NoQuiz == [questions |-> <<>>, present |-> FALSE]
NoError == [text |-> "", detail |-> ""]

\* A number as JavaScript holds it here: an integer or NaN.
Num(n) == [nan |-> FALSE, val |-> n]
NaN == [nan |-> TRUE, val |-> 0]

\* useState<QuizConfig> initial value.
DefaultConfig ==
    [numQuestions |-> Num(6), timeLimit |-> Num(10), difficulty |-> "Medium",
     totalPoints |-> Num(100)]

NoRequest == [called |-> FALSE, text |-> <<>>, config |-> DefaultConfig]

\* The App as it is mounted.
AppIdle ==
    /\ selectedFile = NoFile
    /\ quizData = NoQuiz
    /\ isLoading = FALSE
    /\ appError = NoError
    /\ timerRef = 0
    /\ activeTimers = {}
    /\ quizConfig = DefaultConfig
    /\ hpc = "idle"
    /\ aiRequest = NoRequest
    /\ staleTasks = FALSE
    /\ DisplayIdle

\* One call of extractTextFromFile on any file, seen apart from the App.
Init ==
    /\ AppIdle
    /\ file \in Files
    /\ pc = "start"
    /\ settled = "pending"
    /\ result = <<>>
    /\ error = ""
    /\ progress = NoMsg
    /\ readStarted = FALSE
    /\ numPages = 0
    /\ i = 0
    /\ textContent = <<>>
    /\ path = "none"
    /\ pagesProcessed = 0
    /\ pageLoads = 0
    /\ tpc = [p \in Pages |-> "idle"]
    /\ ocrPageTexts = [p \in Pages |-> Pending]
    /\ worker = [w \in 0..MaxPages |-> "none"]
    /\ outOfOrder = FALSE

\* resolve(v) and reject(e) of the returned promise: the first call settles it.
Resolve(v) ==
    IF settled = "pending"
    THEN settled' = "resolved" /\ result' = v /\ UNCHANGED error
    ELSE UNCHANGED << settled, result, error >>

Reject(e) ==
    IF settled = "pending"
    THEN settled' = "rejected" /\ error' = e /\ UNCHANGED result
    ELSE UNCHANGED << settled, result, error >>

----------------------------------------------------------------------------
\* The image branch, with runOCR inlined.

\* Progress fractions the recognition engine's logger reports, as <<num, den>>.
LoggerProgress == { <<0, 1>>, <<1, 3>>, <<1, 2>>, <<1, 1>> }

StartImage ==
    /\ pc = "start"
    /\ IsImage(file.type)
    /\ progress' = Msg("Starting OCR on image...")
    /\ pc' = "img_createWorker"
    /\ UNCHANGED << appVars, file, settled, result, error, readStarted, worker, pdfVars >>

ImgCreateWorkerOk ==
    /\ pc = "img_createWorker"
    /\ worker' = [worker EXCEPT ![0] = "active"]
    /\ pc' = "img_recognize"
    /\ UNCHANGED << appVars, file, settled, result, error, progress, readStarted, pdfVars >>

ImgCreateWorkerFail ==
    /\ pc = "img_createWorker"
    /\ Reject(ErrImageOcr)
    /\ pc' = "end"
    /\ UNCHANGED << appVars, file, progress, readStarted, worker, pdfVars >>

\* The logger callback, on a message whose status is 'recognizing text'.
ImgRecognizeProgress ==
    /\ pc = "img_recognize"
    /\ \E f \in LoggerProgress :
          progress' = MsgPct("Recognizing text...", RoundPercent(f[1], f[2]))
    /\ UNCHANGED << appVars, file, pc, settled, result, error, readStarted, worker, pdfVars >>

ImgRecognizeOk ==
    /\ pc = "img_recognize"
    /\ pc' = "img_terminate"
    /\ UNCHANGED << appVars, file, settled, result, error, progress, readStarted, worker, pdfVars >>

\* Variant of ImgRecognizeFail: recognition is attempted again with a new worker.
ImgRecognizeFailRetry ==
    /\ pc = "img_recognize"
    /\ pc' = "img_createWorker"
    /\ UNCHANGED << appVars, file, settled, result, error, progress, readStarted, worker, pdfVars >>

\* worker.recognize rejects: runOCR throws before worker.terminate is reached.
ImgRecognizeFail ==
    /\ pc = "img_recognize"
    /\ Reject(ErrImageOcr)
    /\ pc' = "end"
    /\ UNCHANGED << appVars, file, progress, readStarted, worker, pdfVars >>

\* Variant of ImgTerminateOk: a blank recognized text is turned into a failure.
ImgTerminateOkRejectsBlank ==
    /\ pc = "img_terminate"
    /\ worker' = [worker EXCEPT ![0] = "terminated"]
    /\ IF Trim(file.text) = <<>> THEN Reject(ErrImageOcr) ELSE Resolve(file.text)
    /\ pc' = "end"
    /\ UNCHANGED << appVars, file, progress, readStarted, pdfVars >>

ImgTerminateOk ==
    /\ pc = "img_terminate"
    /\ worker' = [worker EXCEPT ![0] = "terminated"]
    /\ Resolve(file.text)
    /\ pc' = "end"
    /\ UNCHANGED << appVars, file, progress, readStarted, pdfVars >>

----------------------------------------------------------------------------
\* The text branch and the unsupported branch.

\* Variant of ReaderResult: the content is trimmed.
ReaderResultTrimmed(f) == Trim(f.text)

\* reader.result as string: the decoded content of the file.
ReaderResult(f) == f.text

StartText ==
    /\ pc = "start"
    /\ ~IsImage(file.type) /\ ~IsPdf(file.type) /\ IsText(file.type)
    /\ progress' = Msg("Preparing file...")
    /\ readStarted' = TRUE
    /\ pc' = "txt_read"
    /\ UNCHANGED << appVars, file, settled, result, error, worker, pdfVars >>

TxtLoad ==
    /\ pc = "txt_read"
    /\ Resolve(ReaderResult(file))
    /\ pc' = "end"
    /\ UNCHANGED << appVars, file, progress, readStarted, worker, pdfVars >>

TxtError ==
    /\ pc = "txt_read"
    /\ Reject(ErrReaderEvent)
    /\ pc' = "end"
    /\ UNCHANGED << appVars, file, progress, readStarted, worker, pdfVars >>

\* Variant of UnsupportedError: the message names the rejected type.
UnsupportedErrorNamingType(type) ==
    IF type = ZipType THEN "Unsupported file type: application/zip"
    ELSE IF type = <<>> THEN "Unsupported file type: (none)"
    ELSE "Unsupported file type: other"

\* new Error("Unsupported file type. ..."): the same message for every type.
UnsupportedError(type) == ErrUnsupported

StartUnsupported ==
    /\ pc = "start"
    /\ ~IsImage(file.type) /\ ~IsPdf(file.type) /\ ~IsText(file.type)
    /\ progress' = Msg("Preparing file...")
    /\ Reject(UnsupportedError(file.type))
    /\ pc' = "end"
    /\ UNCHANGED << appVars, file, readStarted, worker, pdfVars >>

----------------------------------------------------------------------------
\* The PDF branch: file read, structural pass, heuristic.

StartPdf ==
    /\ pc = "start"
    /\ ~IsImage(file.type) /\ IsPdf(file.type)
    /\ progress' = Msg("Preparing file...")
    /\ readStarted' = TRUE
    /\ pc' = "pdf_read"
    /\ UNCHANGED << appVars, file, settled, result, error, worker, pdfVars >>

PdfReadError ==
    /\ pc = "pdf_read"
    /\ Reject(ErrReaderEvent)
    /\ pc' = "end"
    /\ UNCHANGED << appVars, file, progress, readStarted, worker, pdfVars >>

\* reader.onload without a result.
\* Variant of PdfReadEmpty: the handler returns without settling the promise.
PdfReadEmptySilent ==
    /\ pc = "pdf_read"
    /\ pc' = "end"
    /\ UNCHANGED << appVars, file, settled, result, error, progress, readStarted, worker,
                    pdfVars >>

PdfReadEmpty ==
    /\ pc = "pdf_read"
    /\ Reject(ErrPdfRead)
    /\ pc' = "end"
    /\ UNCHANGED << appVars, file, progress, readStarted, worker, pdfVars >>

PdfReadOk ==
    /\ pc = "pdf_read"
    /\ pc' = "pdf_open"
    /\ UNCHANGED << appVars, file, settled, result, error, progress, readStarted, worker, pdfVars >>

\* Any exception inside reader.onload's try block lands in its catch.
PdfCatch ==
    /\ Reject(ErrPdfParse)
    /\ pc' = "end"

PdfOpenFail ==
    /\ pc = "pdf_open"
    /\ PdfCatch
    /\ UNCHANGED << appVars, file, progress, readStarted, worker, pdfVars >>

\* getDocument resolves; the loop starts and awaits pdf.getPage(1).
PdfOpenOk ==
    /\ pc = "pdf_open"
    /\ numPages' = Len(file.pages)
    /\ textContent' = <<>>
    /\ progress' = Msg("Attempting to extract text from PDF...")
    /\ i' = 1
    /\ pageLoads' = pageLoads + 1
    /\ pc' = "pdf_getPage"
    /\ UNCHANGED << appVars, file, settled, result, error, readStarted, worker, path,
                    pagesProcessed, tpc, ocrPageTexts, outOfOrder >>

StructGetPageOk ==
    /\ pc = "pdf_getPage"
    /\ pc' = "pdf_getText"
    /\ UNCHANGED << appVars, file, settled, result, error, progress, readStarted, worker, pdfVars >>

StructGetPageFail ==
    /\ pc = "pdf_getPage"
    /\ PdfCatch
    /\ UNCHANGED << appVars, file, progress, readStarted, worker, pdfVars >>

StructGetTextFail ==
    /\ pc = "pdf_getText"
    /\ PdfCatch
    /\ UNCHANGED << appVars, file, progress, readStarted, worker, pdfVars >>

\* Variant of IsScanned: the comparison is not strict.
IsScannedInclusive(text, n) == Len(Trim(text)) <= CharsPerPage * n

\* Variant of IsScanned: the length is taken without trimming.
IsScannedUntrimmed(text, n) == Len(text) < CharsPerPage * n

\* Variant of OcrJoin: the OCR texts are appended to the structural text.
OcrJoinAfterStructural(texts) == textContent \o <<NL>> \o Join(texts, NL)

\* Variant of OcrJoin: empty page texts are dropped before joining.
OcrJoinNonEmpty(texts) == Join(SelectSeq(texts, LAMBDA t : t # <<>>), NL)

\* text.items.map(s => s.str).join(' ')
PageStructuralText(items) == Join(items, SP)

\* textContent.trim().length < 50 * pdf.numPages
IsScanned(text, n) == Len(Trim(text)) < CharsPerPage * n

\* ocrPageTexts.join('\n')
OcrJoin(texts) == Join(texts, NL)

\* The values of the page promises, as the array Promise.all resolves with.
AllValues(texts) == [p \in 1..numPages |-> texts[p]]

\* getTextContent resolves for page i: its text is appended; then either the
\* loop awaits the next page, or the heuristic runs and, for a scanned
\* document, every page task starts and runs up to its await of getPage.
StructGetTextOk ==
    /\ pc = "pdf_getText"
    /\ LET t == textContent \o PageStructuralText(file.pages[i]) IN
         /\ textContent' = t
         /\ i' = i + 1
         /\ IF i < numPages
            THEN /\ pageLoads' = pageLoads + 1
                 /\ pc' = "pdf_getPage"
                 /\ UNCHANGED << settled, result, error, progress, path,
                                 pagesProcessed, tpc >>
            ELSE IF IsScanned(t, numPages)
            THEN /\ path' = "ocr"
                 /\ progress' = Msg("PDF appears to be scanned, switching to parallel OCR...")
                 /\ pagesProcessed' = 0
                 /\ tpc' = [p \in Pages |-> IF p <= numPages THEN "getPage" ELSE "idle"]
                 /\ pageLoads' = pageLoads + numPages
                 /\ pc' = "pdf_awaitAll"
                 /\ UNCHANGED << settled, result, error >>
            ELSE /\ path' = "structural"
                 /\ Resolve(t)
                 /\ pc' = "end"
                 /\ UNCHANGED << progress, pagesProcessed, tpc, pageLoads >>
    /\ UNCHANGED << appVars, file, readStarted, worker, numPages, ocrPageTexts, outOfOrder >>

----------------------------------------------------------------------------
\* The page tasks of the OCR fallback.  They run whether or not the
\* extraction has settled: nothing cancels them.

TaskFulfilled(s) == s \in {"done", "noContext"}
TaskSettled(s) == s \in {"done", "noContext", "failed"}

\* Variant of StoreValue: each value goes to the first free slot, so the
\* array is in completion order.
StoreValueInCompletionOrder(texts, p, v) ==
    LET free == CHOOSE k \in Pages :
                    texts[k] = Pending /\ \A j \in 1..(k - 1) : texts[j] # Pending
    IN [texts EXCEPT ![free] = v]

\* Variant of PromiseAll: waits for every task and takes a rejected one as done.
PromiseAllSettled(states) ==
    IF \A p \in 1..numPages : TaskSettled(states[p]) THEN "fulfilled" ELSE "pending"

\* Promise.all keeps each value at the index of its promise.
StoreValue(texts, p, v) == [texts EXCEPT ![p] = v]

\* Promise.all: "rejected" as soon as one task has rejected, "fulfilled" once
\* every task has fulfilled.
PromiseAll(states) ==
    IF \E p \in 1..numPages : states[p] = "failed" THEN "rejected"
    ELSE IF \A p \in 1..numPages : TaskFulfilled(states[p]) THEN "fulfilled"
    ELSE "pending"

\* The continuation of `await Promise.all(...)`, run when page task p has
\* just settled and left the tasks in newTpc with the values newTexts.
AwaitAll(newTpc, newTexts) ==
    IF pc = "pdf_awaitAll" /\ PromiseAll(newTpc) = "rejected"
    THEN PdfCatch
    ELSE IF pc = "pdf_awaitAll" /\ PromiseAll(newTpc) = "fulfilled"
    THEN Resolve(OcrJoin(AllValues(newTexts))) /\ pc' = "end"
    ELSE UNCHANGED << pc, settled, result, error >>

\* Page task p rejects.
TaskReject(p) ==
    LET newTpc == [tpc EXCEPT ![p] = "failed"] IN
    /\ tpc' = newTpc
    /\ AwaitAll(newTpc, ocrPageTexts)
    /\ UNCHANGED << ocrPageTexts, outOfOrder >>

\* Page task p returns v, ending at position s.
TaskReturn(p, s, v) ==
    LET newTpc == [tpc EXCEPT ![p] = s]
        newTexts == StoreValue(ocrPageTexts, p, v) IN
    /\ tpc' = newTpc
    /\ ocrPageTexts' = newTexts
    /\ outOfOrder' = (outOfOrder \/ \E q \in 1..(p - 1) : ~TaskSettled(tpc[q]))
    /\ AwaitAll(newTpc, newTexts)

\* The promise handleGenerateQuiz awaits has settled: its continuation is the
\* next job of the event loop, before any callback of a page task.
ContinuationDue == hpc = "awaitExtract" /\ settled # "pending"

\* Page task p waits at position s and its callback is the next job.
TaskAt(p, s) == tpc[p] = s /\ ~ContinuationDue

PageGetPageFail(p) ==
    /\ TaskAt(p, "getPage")
    /\ TaskReject(p)
    /\ UNCHANGED << appVars, file, progress, readStarted, worker, numPages, i, textContent,
                    path, pagesProcessed, pageLoads >>

\* getPage resolves and the canvas gives a 2D context: page.render starts.
PageGetPageOk(p) ==
    /\ TaskAt(p, "getPage")
    /\ tpc' = [tpc EXCEPT ![p] = "render"]
    /\ UNCHANGED << appVars, file, pc, settled, result, error, progress, readStarted, worker,
                    numPages, i, textContent, path, pagesProcessed, pageLoads,
                    ocrPageTexts, outOfOrder >>

\* getPage resolves and canvas.getContext('2d') is null: the task returns "".
PageNoContext(p) ==
    /\ TaskAt(p, "getPage")
    /\ TaskReturn(p, "noContext", <<>>)
    /\ UNCHANGED << appVars, file, progress, readStarted, worker, numPages, i, textContent,
                    path, pagesProcessed, pageLoads >>

PageRenderOk(p) ==
    /\ TaskAt(p, "render")
    /\ tpc' = [tpc EXCEPT ![p] = "createWorker"]
    /\ UNCHANGED << appVars, file, pc, settled, result, error, progress, readStarted, worker,
                    numPages, i, textContent, path, pagesProcessed, pageLoads,
                    ocrPageTexts, outOfOrder >>

PageRenderFail(p) ==
    /\ TaskAt(p, "render")
    /\ TaskReject(p)
    /\ UNCHANGED << appVars, file, progress, readStarted, worker, numPages, i, textContent,
                    path, pagesProcessed, pageLoads >>

PageCreateWorkerOk(p) ==
    /\ TaskAt(p, "createWorker")
    /\ tpc' = [tpc EXCEPT ![p] = "recognize"]
    /\ worker' = [worker EXCEPT ![p] = "active"]
    /\ UNCHANGED << appVars, file, pc, settled, result, error, progress, readStarted,
                    numPages, i, textContent, path, pagesProcessed, pageLoads,
                    ocrPageTexts, outOfOrder >>

PageCreateWorkerFail(p) ==
    /\ TaskAt(p, "createWorker")
    /\ TaskReject(p)
    /\ UNCHANGED << appVars, file, progress, readStarted, worker, numPages, i, textContent,
                    path, pagesProcessed, pageLoads >>

PageRecognizeOk(p) ==
    /\ TaskAt(p, "recognize")
    /\ tpc' = [tpc EXCEPT ![p] = "terminate"]
    /\ UNCHANGED << appVars, file, pc, settled, result, error, progress, readStarted, worker,
                    numPages, i, textContent, path, pagesProcessed, pageLoads,
                    ocrPageTexts, outOfOrder >>

\* Variant of PageLoggerReport: the page worker forwards the engine's progress.
PageLoggerForwards(f) ==
    progress' = MsgPct("Recognizing text...", RoundPercent(f[1], f[2]))

\* Tesseract.createWorker('eng'): no logger is given, so a progress message
\* of the page's engine reaches nobody.
PageLoggerReport(f) == UNCHANGED progress

\* The engine of page p emits a 'recognizing text' message.
PageRecognizeProgress(p) ==
    /\ TaskAt(p, "recognize")
    /\ \E f \in LoggerProgress : PageLoggerReport(f)
    /\ UNCHANGED << appVars, file, pc, settled, result, error, readStarted, worker, pdfVars >>

\* worker.recognize rejects: the task rejects before worker.terminate is reached.
PageRecognizeFail(p) ==
    /\ TaskAt(p, "recognize")
    /\ TaskReject(p)
    /\ UNCHANGED << appVars, file, progress, readStarted, worker, numPages, i, textContent,
                    path, pagesProcessed, pageLoads >>

\* worker.terminate resolves: the counter is incremented, the percentage is
\* reported and the task returns the recognized text.
PageTerminateOk(p) ==
    /\ TaskAt(p, "terminate")
    /\ worker' = [worker EXCEPT ![p] = "terminated"]
    /\ pagesProcessed' = pagesProcessed + 1
    /\ progress' = MsgPct("Processing page OCR...", RoundPercent(pagesProcessed + 1, numPages))
    /\ TaskReturn(p, "done", PageText(p))
    /\ UNCHANGED << appVars, file, readStarted, numPages, i, textContent, path, pageLoads >>

----------------------------------------------------------------------------
Next ==
    \/ StartImage \/ ImgCreateWorkerOk \/ ImgCreateWorkerFail
    \/ ImgRecognizeProgress \/ ImgRecognizeOk \/ ImgRecognizeFail \/ ImgTerminateOk
    \/ StartText \/ TxtLoad \/ TxtError
    \/ StartUnsupported
    \/ StartPdf \/ PdfReadError \/ PdfReadEmpty \/ PdfReadOk
    \/ PdfOpenFail \/ PdfOpenOk
    \/ StructGetPageOk \/ StructGetPageFail \/ StructGetTextOk \/ StructGetTextFail
    \/ \E p \in Pages :
          \/ PageGetPageOk(p) \/ PageGetPageFail(p) \/ PageNoContext(p)
          \/ PageRenderOk(p) \/ PageRenderFail(p)
          \/ PageCreateWorkerOk(p) \/ PageCreateWorkerFail(p)
          \/ PageRecognizeProgress(p)
          \/ PageRecognizeOk(p) \/ PageRecognizeFail(p)
          \/ PageTerminateOk(p)

Spec == Init /\ [][Next]_vars

\* Largest page count of a PDF in the runs checked for termination.
FairMaxPages == 2

FairInit == Init /\ Len(file.pages) <= FairMaxPages

\* A pending call of the extraction completes or fails: every step but the
\* engine's progress events.
Completes ==
    \/ StartImage \/ ImgCreateWorkerOk \/ ImgCreateWorkerFail
    \/ ImgRecognizeOk \/ ImgRecognizeFail \/ ImgTerminateOk
    \/ StartText \/ TxtLoad \/ TxtError
    \/ StartUnsupported
    \/ StartPdf \/ PdfReadError \/ PdfReadEmpty \/ PdfReadOk
    \/ PdfOpenFail \/ PdfOpenOk
    \/ StructGetPageOk \/ StructGetPageFail \/ StructGetTextOk \/ StructGetTextFail
    \/ \E p \in Pages :
          \/ PageGetPageOk(p) \/ PageGetPageFail(p) \/ PageNoContext(p)
          \/ PageRenderOk(p) \/ PageRenderFail(p)
          \/ PageCreateWorkerOk(p) \/ PageCreateWorkerFail(p)
          \/ PageRecognizeOk(p) \/ PageRecognizeFail(p)
          \/ PageTerminateOk(p)

\* One call of extractTextFromFile in which every file read, page load,
\* render and recognition call eventually completes or fails.
FairSpec == FairInit /\ [][Next]_vars /\ WF_vars(Completes)

----------------------------------------------------------------------------
\* The App component: file selection, configuration, generation attempts.
\* The variable progress is App's loadingMessage: the updater handed to
\* extractTextFromFile is setLoadingMessage.

\* Largest page count of a PDF selected in the App.
AppMaxPages == 2

\* A page without embedded text and a page of CharsPerPage characters.
ScannedPage == <<>>
TextPage == << Rep("s", CharsPerPage \div 2 - 1), Rep("s", CharsPerPage - CharsPerPage \div 2) >>

\* Files selected in the App: an image showing text, a text file with and
\* without text, an unsupported file, a one-page PDF with embedded text and
\* scanned PDFs of every page count.
AppFiles ==
    [type : {ImagePrefix \o <<"p","n","g">>}, text : {<<"h","i",NL,"y","o","u",SP>>},
     pages : {<<>>}]
    \cup [type : {TextPrefix \o <<"p","l","a","i","n">>},
          text : {<<SP, NL>>, <<"h","i",NL,"y","o","u",SP>>}, pages : {<<>>}]
    \cup [type : {ZipType}, text : {<<>>}, pages : {<<>>}]
    \cup [type : {PdfType}, text : {<<>>},
          pages : {<< TextPage >>} \cup { [k \in 1..n |-> ScannedPage] : n \in 1..AppMaxPages }]

\* Files of the configuration form's runs: text files.
ConfigFiles == [type : {TextPrefix \o <<"p","l","a","i","n">>}, text : PlainTexts, pages : {<<>>}]

\* A quiz the AI service returns, by the answers of its questions.
Quizzes ==
    { [questions |-> << [options |-> << "A", "B", "C" >>, answer |-> "B"],
                        [options |-> << "True", "False" >>, answer |-> "True"] >>,
       present |-> TRUE] }

ErrNoFile == "Please select a file first."
ErrEmptyText == "The file appears to be empty or we could not extract any text. Please try another file."
ErrGeneratePrefix == "Failed to generate quiz."
ErrUnknown == "An unknown error occurred."
ErrAi == "Failed to parse or receive valid data from the AI model."

AppErr(text) == [text |-> text, detail |-> ""]
\* `Failed to generate quiz. ${errorMessage} Please try again ...`
GenerateErr(errorMessage) == [text |-> ErrGeneratePrefix, detail |-> errorMessage]
\* err instanceof Error ? err.message : 'An unknown error occurred.'
ErrorMessage(e) == IF e = ErrReaderEvent THEN ErrUnknown ELSE e

\* What renderContent shows.
LoaderShown == isLoading
ErrorShown == ~isLoading /\ appError # NoError
QuizShown == ~isLoading /\ appError = NoError /\ quizData # NoQuiz
FileUploadShown == ~isLoading /\ appError = NoError /\ quizData = NoQuiz

\* No call of extractTextFromFile has been made.
ExtractIdle ==
    /\ file = NoFile
    /\ pc = "none"
    /\ settled = "pending"
    /\ result = <<>>
    /\ error = ""
    /\ progress = NoMsg
    /\ readStarted = FALSE
    /\ numPages = 0
    /\ i = 0
    /\ textContent = <<>>
    /\ path = "none"
    /\ pagesProcessed = 0
    /\ pageLoads = 0
    /\ tpc = [p \in Pages |-> "idle"]
    /\ ocrPageTexts = [p \in Pages |-> Pending]
    /\ worker = [w \in 0..MaxPages |-> "none"]
    /\ outOfOrder = FALSE

\* The mounted App before any call of extractTextFromFile.
AppInit == AppIdle /\ ExtractIdle

extractVars == << file, pc, settled, result, error, readStarted, worker, pdfVars >>

\* Variant of ClearTimer: the reference is dropped and the interval keeps running.
ClearTimerKeepsInterval ==
    /\ timerRef' = 0
    /\ UNCHANGED activeTimers

\* clearInterval(timerRef.current); timerRef.current = null, when it is set.
ClearTimer ==
    IF timerRef # 0
    THEN activeTimers' = activeTimers \ {timerRef} /\ timerRef' = 0
    ELSE UNCHANGED << activeTimers, timerRef >>

\* window.setInterval returns an id no active interval has.
NewTimer == CHOOSE n \in 1..(Cardinality(activeTimers) + 1) : n \notin activeTimers

HandleFileChange(selected) ==
    /\ FileUploadShown
    /\ selectedFile' = selected
    /\ appError' = NoError
    /\ quizData' = NoQuiz
    /\ UNCHANGED << isLoading, timerRef, activeTimers, quizConfig, hpc, aiRequest,
                    staleTasks, progress, extractVars, displayVars >>

\* parseInt(value, 10): leading whitespace, an optional sign, then the digits
\* up to the first other character; NaN without a digit.
DigitChars == << "0", "1", "2", "3", "4", "5", "6", "7", "8", "9" >>
IsDigit(c) == \E k \in 1..10 : DigitChars[k] = c
DigitValue(c) == (CHOOSE k \in 1..10 : DigitChars[k] = c) - 1

RECURSIVE LeadingDigits(_, _)
LeadingDigits(t, acc) ==
    IF t = <<>> \/ ~IsDigit(Head(t)) THEN acc
    ELSE LeadingDigits(Tail(t), 10 * acc + DigitValue(Head(t)))

ParseInt(value) ==
    LET t == TrimStart(value)
        signed == t # <<>> /\ Head(t) \in {"+", "-"}
        body == IF signed THEN Tail(t) ELSE t
    IN  IF body = <<>> \/ ~IsDigit(Head(body)) THEN NaN
        ELSE IF Head(t) = "-" THEN Num(0 - LeadingDigits(body, 0))
        ELSE Num(LeadingDigits(body, 0))

\* Values a number input of the form hands over: cleared, 0, a fraction.
InputValues == { <<>>, <<"0">>, <<"2", ".", "5">> }
Difficulties == { "Easy", "Medium", "Hard" }
NumericNames == { "numQuestions", "timeLimit", "totalPoints" }

\* name.includes('num') || name.includes('Points') || name.includes('Limit')
IsNumericName(name) == name \in NumericNames

\* FileUpload.handleConfigInputChange and App.handleConfigChange.
HandleConfigInputChange(name, value) ==
    /\ FileUploadShown
    /\ quizConfig' = [quizConfig EXCEPT
                         ![name] = IF IsNumericName(name) THEN ParseInt(value) ELSE value]
    /\ UNCHANGED << selectedFile, quizData, isLoading, appError, timerRef, activeTimers,
                    hpc, aiRequest, staleTasks, progress, extractVars, displayVars >>

\* A page task of the running extraction has neither returned nor failed.
TaskRunning(t) == t \in {"getPage", "render", "createWorker", "recognize", "terminate"}

\* The Generate button: disabled without a file or while loading.  The handler
\* sets the loading state, restarts the timer and calls extractTextFromFile,
\* which runs up to its first await in the same step of the event loop.
HandleGenerateQuiz ==
    /\ FileUploadShown
    /\ selectedFile # NoFile
    /\ hpc = "idle"
    /\ IF selectedFile = NoFile
       THEN /\ appError' = AppErr(ErrNoFile)
            /\ UNCHANGED << isLoading, quizData, timerRef, activeTimers, hpc, aiRequest,
                            staleTasks, extractVars, displayVars >>
       ELSE /\ isLoading' = TRUE
            /\ appError' = NoError
            /\ quizData' = NoQuiz
            /\ activeTimers' = (activeTimers \ {timerRef}) \cup {NewTimer}
            /\ timerRef' = NewTimer
            /\ hpc' = "awaitExtract"
            /\ aiRequest' = NoRequest
            /\ staleTasks' = (staleTasks \/ \E p \in Pages : TaskRunning(tpc[p]))
            /\ file' = selectedFile
            /\ pc' = "start"
            /\ settled' = "pending"
            /\ result' = <<>>
            /\ error' = ""
            /\ readStarted' = FALSE
            /\ numPages' = 0
            /\ i' = 0
            /\ textContent' = <<>>
            /\ path' = "none"
            /\ pagesProcessed' = 0
            /\ pageLoads' = 0
            /\ tpc' = [p \in Pages |-> "idle"]
            /\ ocrPageTexts' = [p \in Pages |-> Pending]
            /\ worker' = [w \in 0..MaxPages |-> "none"]
            /\ outOfOrder' = FALSE
    /\ UNCHANGED << selectedFile, quizConfig, progress, displayVars >>

\* Variant of IsBlank: the text is not trimmed before the test.
IsBlankUntrimmed(fileText) == fileText = <<>>

\* !fileText.trim()
IsBlank(fileText) == Trim(fileText) = <<>>

\* finally: loading off, message cleared, timer cleared.
Finally ==
    /\ isLoading' = FALSE
    /\ progress' = NoMsg
    /\ ClearTimer
    /\ hpc' = "idle"

\* The extraction resolved with blank text: error, early return, finally.
ExtractBlank ==
    /\ ContinuationDue
    /\ settled = "resolved"
    /\ IsBlank(result)
    /\ appError' = AppErr(ErrEmptyText)
    /\ Finally
    /\ UNCHANGED << selectedFile, quizData, quizConfig, aiRequest, staleTasks, extractVars, displayVars >>

\* The extraction resolved with text: generateQuizFromText is called with it
\* and with the configuration the handler closed over.
ExtractText ==
    /\ ContinuationDue
    /\ settled = "resolved"
    /\ ~IsBlank(result)
    /\ progress' = Msg("Generating questions with AI...")
    /\ aiRequest' = [called |-> TRUE, text |-> result, config |-> quizConfig]
    /\ hpc' = "awaitAI"
    /\ UNCHANGED << selectedFile, quizData, isLoading, appError, timerRef, activeTimers,
                    quizConfig, staleTasks, extractVars, displayVars >>

\* The extraction rejected: catch, finally.
ExtractFailed ==
    /\ ContinuationDue
    /\ settled = "rejected"
    /\ appError' = GenerateErr(ErrorMessage(error))
    /\ Finally
    /\ UNCHANGED << selectedFile, quizData, quizConfig, aiRequest, staleTasks, extractVars, displayVars >>

\* generateQuizFromText returns a quiz.
AiOk ==
    /\ hpc = "awaitAI"
    /\ \E quiz \in Quizzes : quizData' = quiz
    /\ Finally
    /\ UNCHANGED << selectedFile, appError, quizConfig, aiRequest, staleTasks, extractVars, displayVars >>

\* Variant of AiFail: the catch also stores a quiz.
AiFailStoresQuiz ==
    /\ hpc = "awaitAI"
    /\ appError' = GenerateErr(ErrAi)
    /\ \E quiz \in Quizzes : quizData' = quiz
    /\ Finally
    /\ UNCHANGED << selectedFile, quizConfig, aiRequest, staleTasks, extractVars, displayVars >>

\* generateQuizFromText throws.
AiFail ==
    /\ hpc = "awaitAI"
    /\ appError' = GenerateErr(ErrAi)
    /\ Finally
    /\ UNCHANGED << selectedFile, quizData, quizConfig, aiRequest, staleTasks, extractVars, displayVars >>

\* "Try Again" of the error panel and the reset of the quiz display.
HandleReset ==
    /\ ErrorShown \/ QuizShown
    /\ selectedFile' = NoFile
    /\ quizData' = NoQuiz
    /\ appError' = NoError
    /\ isLoading' = FALSE
    /\ ClearTimer
    /\ UNCHANGED << quizConfig, hpc, aiRequest, staleTasks, progress, extractVars, displayVars >>

\* A page task of an earlier extraction completes: it reports the percentage
\* of its own call's counter.
StaleTaskReport ==
    /\ staleTasks
    /\ pc # "start"
    /\ ~ContinuationDue
    /\ \E n \in 2..AppMaxPages : \E k \in 1..n :
          progress' = MsgPct("Processing page OCR...", RoundPercent(k, n))
    /\ staleTasks' \in BOOLEAN
    /\ UNCHANGED << selectedFile, quizData, isLoading, appError, timerRef, activeTimers,
                    quizConfig, hpc, aiRequest, extractVars, displayVars >>

AppNext ==
    \/ \E selected \in AppFiles : HandleFileChange(selected)
    \/ HandleGenerateQuiz
    \/ ExtractBlank \/ ExtractText \/ ExtractFailed
    \/ AiOk \/ AiFail
    \/ HandleReset
    \/ StaleTaskReport
    \/ Next

AppSpec == AppInit /\ [][AppNext]_vars

\* The configuration form, with text files.
ConfigNext ==
    \/ \E selected \in ConfigFiles : HandleFileChange(selected)
    \/ \E name \in NumericNames : \E value \in InputValues :
          HandleConfigInputChange(name, value)
    \/ \E value \in Difficulties : HandleConfigInputChange("difficulty", value)
    \/ HandleGenerateQuiz
    \/ ExtractBlank \/ ExtractText \/ ExtractFailed
    \/ AiOk \/ AiFail
    \/ HandleReset
    \/ StartText \/ TxtLoad \/ TxtError

ConfigSpec == AppInit /\ [][ConfigNext]_vars

----------------------------------------------------------------------------
\* The QuizDisplay component showing one quiz.

\* Questions of a displayed quiz: multiple choice, true/false, and a multiple
\* choice whose answer is none of its options.
QuestionChoices ==
    { [options |-> << "A", "B", "C" >>, answer |-> "B"],
      [options |-> << "True", "False" >>, answer |-> "True"],
      [options |-> << "A", "B" >>, answer |-> "D"] }

DisplayQuizzes ==
    { [questions |-> qs, present |-> TRUE] :
        qs \in UNION { [1..n -> QuestionChoices] : n \in 0..MaxQuestions } }

\* The App showing a quiz in a freshly mounted QuizDisplay.
QuizInit ==
    /\ quizData \in DisplayQuizzes
    /\ selectedFile = NoFile
    /\ isLoading = FALSE
    /\ appError = NoError
    /\ timerRef = 0
    /\ activeTimers = {}
    /\ quizConfig = DefaultConfig
    /\ hpc = "idle"
    /\ aiRequest = NoRequest
    /\ staleTasks = FALSE
    /\ DisplayIdle
    /\ ExtractIdle

NumQuestions == Len(quizData.questions)

\* quiz.questions.reduce(...): the questions whose recorded answer equals the
\* question's answer, counted over the first n questions.
RECURSIVE CorrectCount(_, _, _)
CorrectCount(questions, answers, n) ==
    IF n = 0 THEN 0
    ELSE CorrectCount(questions, answers, n - 1)
         + (IF answers[n] = questions[n].answer THEN 1 ELSE 0)

Score == CorrectCount(quizData.questions, userAnswers, NumQuestions)

\* Object.keys(userAnswers).length === quiz.questions.length
AllQuestionsAnswered ==
    Cardinality({ q \in 1..MaxQuestions : userAnswers[q] # NoAnswer }) = NumQuestions

\* Variant of AnswersLocked: the handler does not test the submission.
AnswersLockedNever == FALSE

\* if (isSubmitted) return;
AnswersLocked == isSubmitted

\* handleAnswerChange(questionIndex, answer), for an option of a question.
HandleAnswerChange(questionIndex, answer) ==
    /\ QuizShown
    /\ IF AnswersLocked
       THEN UNCHANGED userAnswers
       ELSE userAnswers' = [userAnswers EXCEPT ![questionIndex] = answer]
    /\ lateChange' = (lateChange \/ isSubmitted)
    /\ UNCHANGED << isSubmitted, progress, extractVars, selectedFile, quizData, isLoading,
                    appError, timerRef, activeTimers, quizConfig, hpc, aiRequest,
                    staleTasks >>

\* The Submit button: shown until the submission, enabled once every question
\* has an answer.
HandleSubmit ==
    /\ QuizShown
    /\ ~isSubmitted
    /\ AllQuestionsAnswered
    /\ isSubmitted' = TRUE
    /\ UNCHANGED << userAnswers, lateChange, progress, extractVars, selectedFile, quizData,
                    isLoading, appError, timerRef, activeTimers, quizConfig, hpc,
                    aiRequest, staleTasks >>

\* The options a question offers: question.options || [] or True and False.
OptionsOf(questionIndex) ==
    LET options == quizData.questions[questionIndex].options
    IN  { options[k] : k \in 1..Len(options) }

QuizNext ==
    \/ \E questionIndex \in 1..NumQuestions : \E answer \in OptionsOf(questionIndex) :
          HandleAnswerChange(questionIndex, answer)
    \/ HandleSubmit

QuizSpec == QuizInit /\ [][QuizNext]_vars

----------------------------------------------------------------------------
\* Vocabulary of the properties.

\* The structural pass of a PDF has read every page.
StructuralPassDone == IsPdf(file.type) /\ numPages >= 1 /\ i = numPages + 1

TrimmedStructuralLength == Len(Trim(textContent))

AllTasksFulfilled == \A p \in 1..numPages : TaskFulfilled(tpc[p])

NoWorkerEver == \A w \in 0..MaxPages : worker[w] = "none"

\* What page p contributes: its recognized text, or "" without a 2D context.
PageOutcome(p) == IF tpc[p] = "noContext" THEN <<>> ELSE PageText(p)

\* The outcomes of pages 1..n, page 1 first, one newline between pages.
RECURSIVE AscendingText(_)
AscendingText(n) ==
    IF n = 1 THEN PageOutcome(1)
    ELSE AscendingText(n - 1) \o <<NL>> \o PageOutcome(n)

\* The lines of a text: the pieces between its newlines.
RECURSIVE Lines(_)
Lines(t) ==
    IF \A k \in 1..Len(t) : t[k] # NL THEN << t >>
    ELSE LET k == CHOOSE j \in 1..Len(t) :
                     t[j] = NL /\ \A m \in 1..(j - 1) : t[m] # NL
         IN << SubSeq(t, 1, k - 1) >> \o Lines(SubSeq(t, k + 1, Len(t)))

Chars(t) == { t[k] : k \in 1..Len(t) }

----------------------------------------------------------------------------
\* C1: for a PDF classified as scanned whose page tasks all succeed, the
\* extraction resolves with the pages' texts joined by one newline in
\* ascending page order, whatever order the tasks completed in.
C1_AscendingPageOrder ==
    ( /\ StructuralPassDone
      /\ TrimmedStructuralLength < CharsPerPage * numPages
      /\ AllTasksFulfilled )
    => /\ settled = "resolved"
       /\ result = AscendingText(numPages)

\* A full-size scanned PDF whose last page finished before an earlier one.
C1_Witness ==
    /\ numPages = MaxPages
    /\ path = "ocr"
    /\ \A p \in 1..numPages : tpc[p] = "done"
    /\ outOfOrder
    /\ settled = "resolved"
    /\ result = AscendingText(numPages)

\* C2: for a PDF whose trimmed structural text has at least 50 x pageCount
\* characters, the extraction resolves with exactly the structural text and
\* no OCR worker is created and no page task is started.
C2_StructuralNoOcr ==
    ( /\ StructuralPassDone
      /\ TrimmedStructuralLength >= CharsPerPage * numPages )
    => /\ settled = "resolved"
       /\ result = textContent
       /\ NoWorkerEver
       /\ \A p \in Pages : tpc[p] = "idle"

C2_Witness ==
    /\ numPages = MaxPages
    /\ TrimmedStructuralLength = CharsPerPage * numPages
    /\ settled = "resolved"
    /\ result = textContent
    /\ path = "structural"

\* C3, state part: the heuristic has an outcome only once the structural pass
\* has read every page; workers and page tasks exist only after the outcome
\* "ocr"; the structural outcome resolves with the structural text and the OCR
\* outcome resolves with a text that holds no character of the structural text.
C3_OnePathState ==
    /\ path \in {"none", "structural", "ocr"}
    /\ path # "none" => StructuralPassDone
    /\ (\E p \in Pages : worker[p] # "none" \/ tpc[p] # "idle") => path = "ocr"
    /\ path = "structural" => settled = "resolved" /\ result = textContent
    /\ (path = "ocr" /\ settled = "resolved") =>
          /\ "s" \notin Chars(result)
          /\ result = AscendingText(numPages)

\* C3: for every PDF exactly one of the two paths produces the result: the
\* choice is made once, after the structural pass and before any OCR worker
\* is created, and it never changes; an OCR result holds no structural text.
C3_OnePath ==
    /\ []C3_OnePathState
    /\ [][path # "none" => path' = path]_vars

\* An OCR result of a PDF whose structural pass had found some text.
C3_Witness ==
    /\ path = "ocr"
    /\ settled = "resolved"
    /\ TrimmedStructuralLength > 0

\* C4: the heuristic compares strictly: with N pages, a trimmed structural
\* length of 50N - 1 selects OCR and 50N selects the structural text; the OCR
\* path is taken exactly when the length is below 50N.
C4_StrictThreshold ==
    StructuralPassDone =>
        /\ TrimmedStructuralLength = CharsPerPage * numPages - 1 => path = "ocr"
        /\ TrimmedStructuralLength = CharsPerPage * numPages => path = "structural"
        /\ path = "ocr" <=> TrimmedStructuralLength < CharsPerPage * numPages

\* A one-page PDF with 49 characters of trimmed structural text, on the OCR path.
C4_Witness ==
    /\ numPages = 1
    /\ TrimmedStructuralLength = CharsPerPage - 1
    /\ path = "ocr"

\* C5: a text/* input resolves with the decoded content unchanged; the
\* heuristic is not evaluated, no PDF is opened, no page is loaded and no OCR
\* worker is created; the only failure is the reader's own error.
C5_TextUnchanged ==
    file.type \in TextTypes =>
        /\ settled = "resolved" => result = file.text
        /\ settled = "rejected" => error = ErrReaderEvent
        /\ pc = "end" => settled # "pending"
        /\ path = "none"
        /\ numPages = 0 /\ pageLoads = 0
        /\ NoWorkerEver
        /\ \A p \in Pages : tpc[p] = "idle"

\* A text file whose content ends in whitespace, resolved with that content.
C5_Witness ==
    /\ file.type \in TextTypes
    /\ settled = "resolved"
    /\ result = file.text
    /\ Trim(result) # result
    /\ Trim(result) # <<>>

\* C6: an input whose type is none of image/*, application/pdf, text/* is
\* rejected with the unsupported-format error, and no file read, page load or
\* OCR worker has been started, then or later.
C6_UnsupportedBeforeWork ==
    file.type \in OtherTypes =>
        /\ pc # "start" =>
              /\ pc = "end"
              /\ settled = "rejected"
              /\ error = ErrUnsupported
        /\ ~readStarted
        /\ numPages = 0 /\ pageLoads = 0
        /\ NoWorkerEver
        /\ \A p \in Pages : tpc[p] = "idle"

C6_Witness ==
    /\ file.type = ZipType
    /\ settled = "rejected"
    /\ error = ErrUnsupported
    /\ ~readStarted

\* C7: in the OCR fallback, once a page task has failed the extraction is
\* rejected and stays so: it never resolves with the texts of the pages that
\* completed.
C7_NoPartialText ==
    (path = "ocr" /\ \E p \in 1..numPages : tpc[p] = "failed")
    => /\ settled = "rejected"
       /\ error = ErrPdfParse
       /\ result = <<>>

\* Recognition failed on one page after another page had completed, and a
\* third page completed after the rejection.
C7_Witness ==
    /\ path = "ocr"
    /\ settled = "rejected"
    /\ \E p, q \in 1..numPages :
          /\ tpc[p] = "failed" /\ worker[p] = "active"
          /\ tpc[q] = "done"
    /\ \A p \in 1..numPages : TaskSettled(tpc[p])
    /\ pagesProcessed = numPages - 1

\* C8: in the OCR fallback a page without a 2D context does not abort the
\* batch: when every page task has returned the extraction is resolved, its
\* text has one line per page, and line p is empty for a page without context
\* and the recognized text of page p otherwise.
C8_SoftFailureKeepsOrder ==
    (path = "ocr" /\ AllTasksFulfilled)
    => /\ settled = "resolved"
       /\ Len(Lines(result)) = numPages
       /\ \A p \in 1..numPages :
             Lines(result)[p] = (IF tpc[p] = "noContext" THEN <<>> ELSE PageText(p))

\* The three-page document whose page 2 has no context.
C8_Witness ==
    /\ numPages = 3
    /\ tpc[1] = "done" /\ tpc[2] = "noContext" /\ tpc[3] = "done"
    /\ settled = "resolved"
    /\ result = PageText(1) \o <<NL, NL>> \o PageText(3)

\* C9: once the extraction has settled and every page task has finished, no
\* OCR worker that was created is left unterminated.
C9_WorkersReleased ==
    ( /\ settled # "pending"
      /\ pc = "end"
      /\ \A p \in Pages : tpc[p] = "idle" \/ TaskSettled(tpc[p]) )
    => \A w \in 0..MaxPages : worker[w] # "active"

\* C10: in the OCR fallback the counter is incremented exactly once for each
\* page of the document: it never exceeds the page count, and it equals the
\* page count when the batch has completed successfully.
C10_CounterCountsPages ==
    path = "ocr" =>
        /\ pagesProcessed <= numPages
        /\ (settled = "resolved" /\ AllTasksFulfilled) => pagesProcessed = numPages

----------------------------------------------------------------------------
\* The structural text of a document as a function of its pages alone: the
\* pages' texts one after the other, as the loop appends them.
RECURSIVE DocStructuralText(_)
DocStructuralText(pages) ==
    IF pages = <<>> THEN <<>>
    ELSE PageStructuralText(Head(pages)) \o DocStructuralText(Tail(pages))

\* The recognized texts of pages 1..n, page 1 first, one newline between pages.
RECURSIVE RecognizedText(_)
RecognizedText(n) ==
    IF n = 1 THEN PageText(1) ELSE RecognizedText(n - 1) \o <<NL>> \o PageText(n)

\* The path and the text an input determines, whatever the schedule.
Classification(f) ==
    IF IsScanned(DocStructuralText(f.pages), Len(f.pages)) THEN "ocr" ELSE "structural"

ExpectedText(f) ==
    IF ~IsPdf(f.type) THEN f.text
    ELSE IF Classification(f) = "ocr" THEN RecognizedText(Len(f.pages))
    ELSE DocStructuralText(f.pages)

\* C11: after the structural pass the running text is the pages' texts with
\* a single space between consecutive pages.
C11_SpaceBetweenPages ==
    StructuralPassDone =>
        textContent = Join([p \in 1..numPages |-> PageStructuralText(file.pages[p])], SP)

\* C12: a failure of the recognition engine is reported with the OCR failure
\* kind, on an image and on a page of the OCR fallback alike, never with the
\* PDF parse failure kind.
C12_OcrFailureKind ==
    /\ (IsImage(file.type) /\ settled = "rejected" /\ worker[0] = "active")
          => error = ErrImageOcr
    /\ ( /\ path = "ocr"
         /\ settled = "rejected"
         /\ \A p \in 1..numPages : tpc[p] = "failed" => worker[p] = "active" )
          => error # ErrPdfParse

\* C13: the extraction never rejects because its text is empty or blank: an
\* image whose worker ran to its end resolves with the recognized text, a
\* text file is only rejected by the reader, the structural path resolves,
\* and the OCR fallback resolves once every page task has returned.
C13_BlankTextResolves ==
    /\ (IsImage(file.type) /\ worker[0] = "terminated")
          => (settled = "resolved" /\ result = file.text)
    /\ (IsImage(file.type) /\ settled = "rejected")
          => (worker[0] # "terminated" /\ error = ErrImageOcr)
    /\ (file.type \in TextTypes /\ settled = "rejected") => error = ErrReaderEvent
    /\ path = "structural" => settled = "resolved"
    /\ (path = "ocr" /\ AllTasksFulfilled) => settled = "resolved"

\* An image on which recognition returned the empty text.
C13_Witness ==
    /\ IsImage(file.type)
    /\ worker[0] = "terminated"
    /\ settled = "resolved"
    /\ result = <<>>

\* C14, state part: while the running or the last extraction has resolved with
\* text that is blank after trimming, AI generation has not been called for
\* the attempt, no quiz is set, and once the attempt has ended loading is off,
\* no interval is active and the only error shown is the one asking for
\* another file.
C14_BlankTextState ==
    (hpc # "idle" \/ pc = "end") /\ settled = "resolved" /\ Trim(result) = <<>>
    => /\ ~aiRequest.called
       /\ quizData = NoQuiz
       /\ hpc # "awaitAI"
       /\ hpc = "idle" =>
             /\ ~isLoading
             /\ timerRef = 0 /\ activeTimers = {}
             /\ appError \in {AppErr(ErrEmptyText), NoError}

\* C14: when the extraction resolves with text that is blank after trimming,
\* handleGenerateQuiz ends the attempt in the error state asking for another
\* file, never calls AI generation for the attempt, never sets quiz data, and
\* leaves loading off and the timer stopped.
C14_BlankTextEndsAttempt ==
    /\ []C14_BlankTextState
    /\ [][ (ContinuationDue /\ settled = "resolved" /\ Trim(result) = <<>>)
           => /\ appError' = AppErr(ErrEmptyText)
              /\ hpc' = "idle"
              /\ ~isLoading'
              /\ timerRef' = 0 /\ activeTimers' = {}
              /\ quizData' = NoQuiz
              /\ aiRequest' = NoRequest ]_vars

\* A text file of whitespace only: the attempt has ended with the error asking
\* for another file.
C14_Witness ==
    /\ hpc = "idle"
    /\ settled = "resolved"
    /\ result = <<SP, NL>>
    /\ appError = AppErr(ErrEmptyText)
    /\ ~isLoading
    /\ timerRef = 0 /\ activeTimers = {}
    /\ ~aiRequest.called
    /\ quizData = NoQuiz

\* C15: the classification and the text of a resolved extraction are functions
\* of the input alone (every page having had its canvas context), so two runs
\* on the same input agree whatever their schedules.
C15_ScheduleIndependent ==
    /\ (IsPdf(file.type) /\ path # "none") => path = Classification(file)
    /\ (settled = "resolved" /\ \A p \in Pages : tpc[p] # "noContext")
          => result = ExpectedText(file)

\* An OCR result of several pages that completed out of page order.
C15_Witness ==
    /\ numPages >= 2
    /\ path = "ocr"
    /\ outOfOrder
    /\ \A p \in Pages : tpc[p] # "noContext"
    /\ settled = "resolved"
    /\ result = ExpectedText(file)

\* C16 as stated: the failure of an unsupported input tells its media type
\* from every other unsupported type.
C16_ErrorCarriesType ==
    (file.type \in OtherTypes /\ settled = "rejected")
    => \A t \in OtherTypes \ {file.type} : error # UnsupportedError(t)

\* C16 as amended: every unsupported input fails with the same fixed
\* message, which does not depend on the rejected media type.
C16_ErrorIsFixedMessage ==
    (file.type \in OtherTypes /\ settled = "rejected")
    => /\ error = ErrUnsupported
       /\ \A t \in OtherTypes : error = UnsupportedError(t)

C16_Witness ==
    /\ file.type = <<>>
    /\ settled = "rejected"
    /\ error = UnsupportedError(ZipType)

\* The configuration record the AI service is specified to consume.
ValidConfig(config) ==
    /\ \A name \in NumericNames : ~config[name].nan /\ config[name].val >= 1
    /\ config.difficulty \in Difficulties

\* C17: after any sequence of configuration edits, the configuration passed to
\* AI generation has integer numQuestions, timeLimit and totalPoints of at
\* least 1 and a difficulty among Easy, Medium, Hard.
C17_ValidConfigPassed == aiRequest.called => ValidConfig(aiRequest.config)

\* C18: the k-th page report carries round(k/N x 100) percent, and when every
\* page task has completed the last report is 100%.
C18_ProgressReports ==
    path = "ocr" =>
        /\ progress.text = "Processing page OCR..."
              => progress.pct = RoundPercent(pagesProcessed, numPages)
        /\ AllTasksFulfilled => progress = MsgPct("Processing page OCR...", 100)

\* C19: for a PDF the reporter never receives an engine-level "Recognizing
\* text..." message; from the switch to OCR on, the last message is the switch
\* message or a page report; a "Recognizing text..." message only comes from
\* the worker of the image path.
C19_NoEngineProgressInPdf ==
    /\ IsPdf(file.type) => progress.text # "Recognizing text..."
    /\ path = "ocr" =>
          progress.text \in { "PDF appears to be scanned, switching to parallel OCR...",
                              "Processing page OCR..." }
    /\ progress.text = "Recognizing text..."
          => (IsImage(file.type) /\ worker[0] # "none")

\* A page report is the last message while another page's engine recognizes.
C19_Witness ==
    /\ path = "ocr"
    /\ \E p \in 1..numPages : tpc[p] = "recognize"
    /\ progress.text = "Processing page OCR..."

\* C20: nothing is retried: recognition starts for an image or a page only
\* with no worker created for it before; a failed page task stays failed;
\* and after a rejection that came before the heuristic had an outcome (image
\* OCR, PDF open or structural page load) no OCR fallback starts and nothing
\* else runs.
C20_NoRetry ==
    [][ /\ (pc' = "img_recognize" /\ pc # "img_recognize") => worker[0] = "none"
        /\ \A p \in Pages :
              /\ (tpc'[p] = "recognize" /\ tpc[p] # "recognize") => worker[p] = "none"
              /\ tpc[p] = "failed" => tpc'[p] = "failed"
        /\ (settled = "rejected" /\ path = "none")
              => (path' = "none" /\ tpc' = tpc /\ worker' = worker /\ pc' = pc)
      ]_vars

\* A PDF whose second structural page load failed: no page task ever started.
C20_Witness ==
    /\ IsPdf(file.type)
    /\ i >= 2
    /\ settled = "rejected"
    /\ path = "none"
    /\ \A p \in Pages : tpc[p] = "idle" /\ worker[p] = "none"

\* C21: whenever the App is not loading, loadingMessage is the empty string:
\* no progress event of a finished attempt changes it, neither before nor
\* during a later attempt.
C21_IdleMessageEmpty == ~isLoading => progress = NoMsg

\* C22: each call of extractTextFromFile settles exactly once: when every file
\* read, page load, render and recognition call eventually completes or fails,
\* the promise is eventually resolved or rejected, and once settled its state
\* and its value or error never change.
C22_SettlesExactlyOnce ==
    /\ <>(settled # "pending")
    /\ [][ settled # "pending"
           => settled' = settled /\ result' = result /\ error' = error ]_vars
    /\ [](settled = "resolved" => error = "")
    /\ [](settled = "rejected" => result = <<>>)

\* A scanned PDF resolved by the OCR fallback after a page task had been the
\* last call outstanding.
C22_Witness ==
    /\ path = "ocr"
    /\ numPages = FairMaxPages
    /\ settled = "resolved"
    /\ pc = "end"

\* C23, state part: between event handlers an interval is active exactly when
\* isLoading is true, it is the one timerRef holds, and no second interval is
\* active.
C23_TimerState ==
    /\ Cardinality(activeTimers) <= 1
    /\ isLoading <=> activeTimers # {}
    /\ timerRef # 0 <=> activeTimers # {}
    /\ activeTimers \subseteq {timerRef}

\* C23: the elapsed-time interval is active exactly when isLoading is true, at
\* most one interval is ever active, and every exit of handleGenerateQuiz
\* (success, empty text, extraction failure, AI failure) and handleReset
\* leaves the timer cleared.
C23_TimerTracksLoading ==
    /\ []C23_TimerState
    /\ [][ (hpc # "idle" /\ hpc' = "idle") \/ (selectedFile # NoFile /\ selectedFile' = NoFile)
           => timerRef' = 0 /\ activeTimers' = {} /\ ~isLoading' ]_vars

\* An attempt has ended by a failure of the AI call, the timer cleared.
C23_Witness ==
    /\ hpc = "idle"
    /\ aiRequest.called
    /\ appError = GenerateErr(ErrAi)
    /\ ~isLoading
    /\ timerRef = 0
    /\ activeTimers = {}

\* C24, state part: error and quizData are never both set, and while quizData
\* is set the last attempt's extraction resolved with non-blank text, which
\* was handed to the AI call.
C24_QuizState ==
    /\ ~(appError # NoError /\ quizData # NoQuiz)
    /\ quizData # NoQuiz =>
          /\ hpc = "idle"
          /\ settled = "resolved"
          /\ Trim(result) # <<>>
          /\ aiRequest.called
          /\ aiRequest.text = result

\* C24: after any sequence of file selections, generate requests and resets,
\* error and quizData are never both set, and quizData is set only by a
\* generation attempt whose extraction returned non-blank text and whose AI
\* call succeeded.
C24_QuizOnlyFromSuccess ==
    /\ []C24_QuizState
    /\ [][ quizData' # quizData /\ quizData' # NoQuiz
           => /\ hpc = "awaitAI"
              /\ settled = "resolved"
              /\ Trim(result) # <<>>
              /\ appError' = NoError ]_vars

\* A quiz is shown for a scanned PDF that the OCR fallback has read.
C24_Witness ==
    /\ quizData # NoQuiz
    /\ appError = NoError
    /\ hpc = "idle"
    /\ IsPdf(file.type)
    /\ path = "ocr"

\* C25: once the answers have been submitted, every later answer-change event
\* leaves the recorded answers unchanged, so the score (the number of
\* questions whose recorded answer equals the question's answer) never changes
\* after the submission, and it is always between 0 and the number of
\* questions.
C25_ScoreFrozen ==
    /\ [](Score \in 0..NumQuestions)
    /\ [][ isSubmitted
           => /\ userAnswers' = userAnswers
              /\ Score' = Score
              /\ isSubmitted' ]_vars

\* An answer-change event has arrived after the submission of a quiz whose
\* score is neither 0 nor the number of questions.
C25_Witness ==
    /\ isSubmitted
    /\ lateChange
    /\ NumQuestions = MaxQuestions
    /\ Score > 0
    /\ Score < NumQuestions

====
